---- MODULE Spec2Model ----
(***************************************************************************)
(* WanderMart mock API layer (services/api.ts) over browser localStorage.  *)
(*                                                                         *)
(* Every facade function awaits delay(DELAY_MS) and then runs its body in  *)
(* one uninterrupted JavaScript task: it reads the slice(s) with           *)
(* getStorage, writes back with setStorage and returns an envelope         *)
(* {success, data?, message?}.  An action below is that whole body.        *)
(*                                                                         *)
(* JavaScript objects are functions from field names to values; a field    *)
(* that is absent and a field that holds `undefined` both read as          *)
(* Undefined (Get).  JSON.stringify drops the fields holding undefined.    *)
(***************************************************************************)
EXTENDS Integers, Sequences, FiniteSets, TLC

VARIABLES
    localStorage,   \* key -> [text |-> ...]: the keys present in window.localStorage
    now,            \* Date.now(), as an offset from the first call
    last,           \* the facade call that resolved last, [op, args], and the
                    \* envelope it resolved with
    prev,           \* localStorage as it was when that call's body started
    memo,           \* the earlier call with the arguments of the last one, its envelope,
                    \* and whether it was repeated, since the store last changed
                    \* (replaced when a different call resolves)
    inflight,       \* the calls whose delay(DELAY_MS) timer is pending, oldest first
    issued,         \* the number of calls put in flight so far
    settled,        \* the queue entry of the call that resolved last: its ticket and
                    \* whether another call was in flight while it waited
    user,           \* the user state of App: <<>> for null, <<u>> for a User
    fromLoad,       \* whether that state is the one the page load computed
    cart,           \* the cart state of App
    cartLast        \* the cart callback that ran last, and the cart before it

vars == <<localStorage, now, last, prev, memo, inflight, issued, settled,
          user, fromLoad, cart, cartLast>>

\* The call that resolved last and what its promise settled with.
call == last.call
resp == last.resp

----------------------------------------------------------------------------
(* Bounds of the model *)

\* Date.now() takes the values 0..MaxClock.
MaxClock == 2
\* createPost is not issued once the post slice holds MaxPosts entries.
MaxPosts == 2
\* createOrder is not issued once the order slice holds MaxOrders entries.
MaxOrders == 2
\* createAttraction is not issued once the attraction slice holds
\* MaxNewAttractions entries more than the fixtures, or that many created ones.
MaxNewAttractions == 1
\* createProduct is not issued once the product slice holds MaxNewProducts
\* entries more than the fixtures.
MaxNewProducts == 1
\* No more than MaxIssued calls are issued to wait for their timers.
MaxIssued == 3
\* addToCart is not called once it would take a line past MaxQuantity.
MaxQuantity == 3

----------------------------------------------------------------------------
(* JavaScript values *)

\* The value `undefined`.
Undefined == "undefined"

\* o.f for an object o: undefined when the field is absent.
Get(o, f) == IF f \in DOMAIN o THEN o[f] ELSE Undefined

\* Truthiness of a string-or-undefined value: undefined and '' are falsy.
Truthy(v) == v # Undefined /\ v # ""

\* a || b for string-or-undefined a.
OrElse(a, b) == IF Truthy(a) THEN a ELSE b

\* { ...o, ...patch }
Spread(o, patch) ==
    [f \in DOMAIN o \cup DOMAIN patch |->
        IF f \in DOMAIN patch THEN patch[f] ELSE o[f]]

\* The fields that the code may set to undefined (all string-valued here).
UndefinableFields ==
    {"imageUrl", "rating", "trackingNumber", "qualificationUrl", "openHours",
     "drivingTips", "attractionId", "attractionName", "province", "city",
     "county", "title", "description", "address", "email", "userId",
     "username", "content", "merchantId", "name"}

\* JSON.stringify of one object: fields holding undefined are left out.
\* (Nested objects, the line items of an order, hold no undefined field.)
StringifyObject(o) ==
    [f \in {g \in DOMAIN o : ~(g \in UndefinableFields /\ o[g] = Undefined)} |-> o[f]]

\* JSON.stringify of an array of objects; the result is a string, kept as
\* [text |-> the value it encodes].
JSONstringify(val) == [text |-> [i \in DOMAIN val |-> StringifyObject(val[i])]]

\* JSON.parse
JSONparse(s) == s.text

\* `${prefix}${n}`
Template(prefix, n) == prefix \o ToString(n)

\* new Date().toISOString()
toISOString(t) == Template("T", t)

----------------------------------------------------------------------------
(* localStorage helpers: services/api.ts 16-23 *)

\* Mutant of getStorage: a stored empty array counts as nothing stored.
getStorage_emptyFallsBack(key, defaultVal) ==
    IF key \in DOMAIN localStorage /\ JSONparse(localStorage[key]) # <<>>
    THEN JSONparse(localStorage[key])
    ELSE defaultVal

getStorage(key, defaultVal) ==
    IF key \in DOMAIN localStorage
    THEN JSONparse(localStorage[key])
    ELSE defaultVal

\* Mutant of setStorage: a key that is already present is left as it is.
setStorage_keepsPresentKey(key, val) ==
    IF key \in DOMAIN localStorage
    THEN localStorage
    ELSE [k \in DOMAIN localStorage \cup {key} |->
             IF k = key THEN JSONstringify(val) ELSE localStorage[k]]

\* The store after setStorage(key, val).
setStorage(key, val) ==
    [k \in DOMAIN localStorage \cup {key} |->
        IF k = key THEN JSONstringify(val) ELSE localStorage[k]]

\* What a slice reads as in a given store (used on `prev` and localStorage).
Slice(store, key, defaultVal) ==
    IF key \in DOMAIN store THEN JSONparse(store[key]) ELSE defaultVal

----------------------------------------------------------------------------
(* Envelopes and the bookkeeping of a resolved call *)

Ok(data) == [success |-> TRUE, data |-> data]
Fail(message) == [success |-> FALSE, message |-> message]
\* The promise of the call is rejected with error instead of being fulfilled
\* with an envelope.
Rejected(error) == [rejected |-> error]
\* The promise of the call is fulfilled with a value that is not an envelope.
Fulfilled(value) == [value |-> value]

NoMemo == [call |-> [op |-> "none", args |-> <<>>], resp |-> Ok(TRUE), repeated |-> FALSE]

\* A call that did not wait in the queue of timers.
NoTicket == [op |-> "none", args |-> <<>>, ticket |-> 0, overlapped |-> FALSE]

\* No cart callback has run since the page was loaded.
NoCartCall == [op |-> "none", args |-> <<>>, before |-> <<>>]

\* The call resolves with envelope r, having left the store as `store`.
\* A call that was in flight is the oldest one (timers of equal delay fire
\* in the order they were set) and leaves the queue.
Settle(op, args, r, store) ==
    /\ last' = [call |-> [op |-> op, args |-> args], resp |-> r]
    /\ prev' = localStorage
    /\ localStorage' = store
    /\ memo' = IF store # localStorage
                THEN NoMemo
                ELSE IF memo.call.op = op /\ memo.call.args = args
                     THEN [memo EXCEPT !.repeated = TRUE]
                     ELSE [call |-> [op |-> op, args |-> args], resp |-> r,
                           repeated |-> FALSE]
    /\ inflight' = IF inflight = <<>> THEN inflight ELSE Tail(inflight)
    /\ settled' = IF inflight = <<>> THEN NoTicket ELSE Head(inflight)
    /\ UNCHANGED <<now, issued>>

\* A facade call resolves; the facade does not touch the state of App.
Resolve(op, args, r, store) ==
    /\ Settle(op, args, r, store)
    /\ UNCHANGED <<user, fromLoad, cart, cartLast>>

\* Time passes between calls.
Tick ==
    /\ now < MaxClock
    /\ now' = now + 1
    /\ UNCHANGED <<localStorage, last, prev, memo, inflight, issued, settled,
                   user, fromLoad, cart, cartLast>>

Init ==
    /\ localStorage = <<>>
    /\ now = 0
    /\ last = [call |-> [op |-> "none", args |-> <<>>], resp |-> Ok(TRUE)]
    /\ prev = <<>>
    /\ memo = NoMemo
    /\ inflight = <<>>
    /\ issued = 0
    /\ settled = NoTicket
    /\ user = <<>>
    /\ fromLoad = TRUE
    /\ cart = <<>>
    /\ cartLast = NoCartCall

----------------------------------------------------------------------------
(* POST SERVICES *)

\* Inputs of the post operations.
AttractionIdInputs == {"1", "2"}
PostDataInputs ==
    { [attractionId |-> "1", userId |-> "u1", username |-> "Traveler User",
       content |-> "Lovely pandas"],
      [attractionId |-> "2", userId |-> "u1", username |-> "Traveler User",
       content |-> "Crowded", imageUrl |-> "data:image/png", rating |-> "4",
       status |-> "reported", likes |-> 7] }
PostIdInputs == {Template("post-", t) : t \in 0..MaxClock} \cup {"post-123"}

\* Mutant of visiblePosts: the status filter is forgotten.
visiblePosts_noStatusFilter(allPosts, attractionId) ==
    IF Truthy(attractionId)
    THEN SelectSeq(allPosts, LAMBDA p : p.attractionId = attractionId)
    ELSE allPosts

\* The data getPosts returns for a post slice.
visiblePosts(allPosts, attractionId) ==
    LET visible == SelectSeq(allPosts, LAMBDA p : p.status = "active")
    IN  IF Truthy(attractionId)
        THEN SelectSeq(visible, LAMBDA p : p.attractionId = attractionId)
        ELSE visible

\* The data getReportedContent returns for a post slice.
reportedPosts(posts) == SelectSeq(posts, LAMBDA p : p.status = "reported")

getPosts(attractionId) ==
    LET allPosts == getStorage("mock_posts", <<>>)
    IN  Resolve("getPosts", [attractionId |-> attractionId],
                Ok(visiblePosts(allPosts, attractionId)), localStorage)

\* Date.now() and new Date() are read in the same task, at the same `now`.
\* Mutant of createPost: the caller's fields are spread over the new post.
createPost_spreadsPostData(postData) ==
    LET newPost ==
            Spread([id |-> Template("post-", now),
                    imageUrl |-> Undefined,
                    rating |-> Undefined,
                    likes |-> 0,
                    comments |-> <<>>,
                    createdAt |-> toISOString(now),
                    status |-> "active"],
                   postData)
        posts == getStorage("mock_posts", <<>>)
    IN  /\ Len(posts) < MaxPosts
        /\ Resolve("createPost", [postData |-> postData], Ok(newPost),
                   setStorage("mock_posts", <<newPost>> \o posts))

createPost(postData) ==
    LET newPost ==
            [id |-> Template("post-", now),
             attractionId |-> Get(postData, "attractionId"),
             userId |-> Get(postData, "userId"),
             username |-> Get(postData, "username"),
             content |-> Get(postData, "content"),
             imageUrl |-> Get(postData, "imageUrl"),
             rating |-> Get(postData, "rating"),
             likes |-> 0,
             comments |-> <<>>,
             createdAt |-> toISOString(now),
             status |-> "active"]
        posts == getStorage("mock_posts", <<>>)
    IN  /\ Len(posts) < MaxPosts
        /\ Resolve("createPost", [postData |-> postData], Ok(newPost),
                   setStorage("mock_posts", <<newPost>> \o posts))

reportPost(postId) ==
    LET posts == getStorage("mock_posts", <<>>)
        updated == [i \in DOMAIN posts |->
                        IF posts[i].id = postId
                        THEN Spread(posts[i], [status |-> "reported"])
                        ELSE posts[i]]
    IN  Resolve("reportPost", [postId |-> postId], Ok(TRUE),
                setStorage("mock_posts", updated))

getReportedContent ==
    LET posts == getStorage("mock_posts", <<>>)
    IN  Resolve("getReportedContent", <<>>, Ok(reportedPosts(posts)), localStorage)

\* Mutant of moderateContent: approve writes the slice back as it was read.
moderateContent_approveKeepsStatus(id, action) ==
    LET posts == getStorage("mock_posts", <<>>)
        result == IF action = "delete"
                  THEN SelectSeq(posts, LAMBDA p : p.id # id)
                  ELSE posts
    IN  Resolve("moderateContent", [id |-> id, action |-> action], Ok(TRUE),
                setStorage("mock_posts", result))

moderateContent(id, action) ==
    LET posts == getStorage("mock_posts", <<>>)
        result == IF action = "delete"
                  THEN SelectSeq(posts, LAMBDA p : p.id # id)
                  ELSE [i \in DOMAIN posts |->
                            IF posts[i].id = id
                            THEN Spread(posts[i], [status |-> "active"])
                            ELSE posts[i]]
    IN  Resolve("moderateContent", [id |-> id, action |-> action], Ok(TRUE),
                setStorage("mock_posts", result))

NextPost ==
    \/ Tick
    \/ \E attractionId \in AttractionIdInputs \cup {Undefined} : getPosts(attractionId)
    \/ \E postData \in PostDataInputs : createPost(postData)
    \/ \E postId \in PostIdInputs : reportPost(postId)
    \/ getReportedContent
    \/ \E id \in PostIdInputs, action \in {"approve", "delete"} : moderateContent(id, action)

SpecPost == Init /\ [][NextPost]_vars

----------------------------------------------------------------------------
(* AUTH SERVICES *)

INITIAL_USERS ==
    << [id |-> "admin1", username |-> "Admin User", email |-> "admin@test.com",
        role |-> "admin", status |-> "active"],
       [id |-> "m1", username |-> "Merchant User", email |-> "merchant@test.com",
        role |-> "merchant", status |-> "active",
        qualificationUrl |-> "https://picsum.photos/200/300"],
       [id |-> "u1", username |-> "Traveler User", email |-> "user@test.com",
        role |-> "traveler", status |-> "active"] >>

\* Inputs of the user operations.
EmailInputs == {"A@x.com", "USER@test.com", "nobody@x.com"}
UserDataInputs ==
    { [email |-> "a@x.com"],
      [email |-> "a@x.com", role |-> "merchant", qualificationUrl |-> "data:license"],
      [email |-> "a@x.com", role |-> "admin", username |-> ""],
      [email |-> "A@x.com", role |-> "traveler"],
      [email |-> "A@x.com", role |-> "merchant", username |-> "Ann"],
      [email |-> "A@x.com", role |-> "guest"],
      [email |-> "user@test.com", role |-> "traveler"] }
UserIdInputs == {"m1", "u-0", "u-404"}

\* Strings are read a character at a time with SubSeq.
CharAt(s, i) == SubSeq(s, i, i)

UpperCase ==
    <<"A", "B", "C", "D", "E", "F", "G", "H", "I", "J", "K", "L", "M",
      "N", "O", "P", "Q", "R", "S", "T", "U", "V", "W", "X", "Y", "Z">>
LowerCase ==
    <<"a", "b", "c", "d", "e", "f", "g", "h", "i", "j", "k", "l", "m",
      "n", "o", "p", "q", "r", "s", "t", "u", "v", "w", "x", "y", "z">>

UpperToLower ==
    [c \in {UpperCase[k] : k \in DOMAIN UpperCase} |->
        LowerCase[CHOOSE k \in DOMAIN UpperCase : UpperCase[k] = c]]

\* String.prototype.toLowerCase (the strings of the model are ASCII).
toLowerCase(s) ==
    LET lowerChar(c) == IF c \in DOMAIN UpperToLower THEN UpperToLower[c] ELSE c
        lowered[i \in 0..Len(s)] ==
            IF i = 0 THEN "" ELSE lowered[i - 1] \o lowerChar(CharAt(s, i))
    IN  lowered[Len(s)]

\* email.split('@')[0]: the part before the first '@', or all of it.
LocalPart(email) ==
    LET ats == {i \in 1..Len(email) : CharAt(email, i) = "@"}
    IN  IF ats = {}
        THEN email
        ELSE SubSeq(email, 1, (CHOOSE i \in ats : \A j \in ats : i <= j) - 1)

\* Array.prototype.find, given the elements that satisfy the test in array
\* order: the first of them, as a sequence of at most one element (empty
\* when find returns undefined).
Find(hits) == IF hits = <<>> THEN <<>> ELSE <<Head(hits)>>

\* The envelope login returns.
loginResponse(email) ==
    LET users == getStorage("mock_users", INITIAL_USERS)
        found == Find(SelectSeq(users, LAMBDA u : toLowerCase(u.email) = toLowerCase(email)))
    IN  IF found # <<>>
        THEN Ok(Spread(found[1], [token |-> "mock-jwt-" \o found[1].id]))
        ELSE Fail("Invalid credentials. Try user@test.com, merchant@test.com, or admin@test.com")

login(email) ==
    Resolve("login", [email |-> email], loginResponse(email), localStorage)

\* Mutant of registerStatus: every new account starts active.
registerStatus_alwaysActive(role) == "active"

\* The status register gives a new user (api.ts 173).
registerStatus(role) == IF role = "merchant" THEN "pending" ELSE "active"

\* Mutant of emailTaken: no duplicate check.
emailTaken_never(users, email) == FALSE

\* The duplicate check of register (api.ts 168).
emailTaken(users, email) ==
    Find(SelectSeq(users, LAMBDA u : Get(u, "email") = email)) # <<>>

register(userData) ==
    LET users == getStorage("mock_users", INITIAL_USERS)
        status == registerStatus(Get(userData, "role"))
        newUser ==
            [id |-> Template("u-", now),
             username |-> OrElse(Get(userData, "username"),
                                 LocalPart(Get(userData, "email"))),
             email |-> Get(userData, "email"),
             role |-> OrElse(Get(userData, "role"), "traveler"),
             status |-> status,
             qualificationUrl |-> Get(userData, "qualificationUrl"),
             token |-> "mock-jwt-new"]
    IN  IF emailTaken(users, Get(userData, "email"))
        THEN Resolve("register", [userData |-> userData],
                     Fail("Email already exists"), localStorage)
        ELSE IF ~Truthy(Get(userData, "username")) /\ Get(userData, "email") = Undefined
        THEN \* undefined.split('@') raises a TypeError inside the async function
             Resolve("register", [userData |-> userData],
                     Rejected("TypeError"), localStorage)
        ELSE Resolve("register", [userData |-> userData], Ok(newUser),
                     setStorage("mock_users", users \o <<newUser>>))

getPendingMerchants ==
    LET users == getStorage("mock_users", INITIAL_USERS)
        pending == SelectSeq(users, LAMBDA u : u.role = "merchant" /\ u.status = "pending")
    IN  Resolve("getPendingMerchants", <<>>, Ok(pending), localStorage)

\* Mutant of updateUserStatus: a rejected user is dropped from the slice.
updateUserStatus_dropsRejected(userId, status) ==
    LET users == getStorage("mock_users", INITIAL_USERS)
        updatedUsers == IF status = "rejected"
                        THEN SelectSeq(users, LAMBDA u : u.id # userId)
                        ELSE [i \in DOMAIN users |->
                                 IF users[i].id = userId
                                 THEN Spread(users[i], [status |-> status])
                                 ELSE users[i]]
    IN  Resolve("updateUserStatus", [userId |-> userId, status |-> status],
                Ok(TRUE), setStorage("mock_users", updatedUsers))

updateUserStatus(userId, status) ==
    LET users == getStorage("mock_users", INITIAL_USERS)
        updatedUsers == [i \in DOMAIN users |->
                            IF users[i].id = userId
                            THEN Spread(users[i], [status |-> status])
                            ELSE users[i]]
    IN  Resolve("updateUserStatus", [userId |-> userId, status |-> status],
                Ok(TRUE), setStorage("mock_users", updatedUsers))

NextUser ==
    \/ Tick
    \/ \E email \in EmailInputs : login(email)
    \/ \E userData \in UserDataInputs : register(userData)
    \/ getPendingMerchants
    \/ \E userId \in UserIdInputs, status \in {"active", "rejected"} :
          updateUserStatus(userId, status)

SpecUser == Init /\ [][NextUser]_vars

----------------------------------------------------------------------------
(* ATTRACTION SERVICES *)

\* The fixtures; the Chinese place names are written in pinyin.
MOCK_ATTRACTIONS ==
    << [id |-> "1",
        title |-> "Chengdu Research Base of Giant Panda Breeding",
        description |-> "A world-renowned breeding and research center for giant pandas.",
        address |-> "1375 Panda Rd, Chenghua District, Chengdu",
        province |-> "Sichuan", city |-> "Chengdu", county |-> "Chenghua",
        region |-> "Sichuan Chengdu",
        tags |-> <<"Nature", "Animals", "Family">>,
        imageUrl |-> "https://picsum.photos/800/600?random=1",
        gallery |-> <<"https://picsum.photos/800/600?random=101",
                      "https://picsum.photos/800/600?random=102",
                      "https://picsum.photos/800/600?random=103">>,
        openHours |-> "07:30 - 18:00",
        drivingTips |-> "Accessible by Metro Line 3. Parking available at South Gate."],
       [id |-> "2",
        title |-> "The Palace Museum (Forbidden City)",
        description |-> "Imperial palace of the Ming and Qing dynasties. A masterpiece of Chinese architecture.",
        address |-> "4 Jingshan Front St, Dongcheng District, Beijing",
        province |-> "Beijing", city |-> "Beijing", county |-> "Dongcheng",
        region |-> "Beijing Dongcheng",
        tags |-> <<"History", "Culture", "Architecture">>,
        imageUrl |-> "https://picsum.photos/800/600?random=2",
        gallery |-> <<"https://picsum.photos/800/600?random=201",
                      "https://picsum.photos/800/600?random=202">>,
        openHours |-> "08:30 - 17:00",
        drivingTips |-> "No public parking. Use public transport (Metro Line 1)."],
       [id |-> "3",
        title |-> "West Lake Cultural Landscape",
        description |-> "Freshwater lake divided by causeways, famous for its scenic beauty and temples.",
        address |-> "Xihu District, Hangzhou, Zhejiang",
        province |-> "Zhejiang", city |-> "Hangzhou", county |-> "Xihu",
        region |-> "Zhejiang Hangzhou",
        tags |-> <<"Nature", "History", "Water">>,
        imageUrl |-> "https://picsum.photos/800/600?random=3",
        gallery |-> <<"https://picsum.photos/800/600?random=301">>,
        openHours |-> "24 Hours",
        drivingTips |-> "Traffic restrictions on weekends based on license plates."],
       [id |-> "4",
        title |-> "Jiuzhaigou Valley",
        description |-> "Nature reserve and national park known for its many multi-level waterfalls and colorful lakes.",
        address |-> "Jiuzhaigou County, Ngawa Tibetan and Qiang Autonomous Prefecture, Sichuan",
        province |-> "Sichuan", city |-> "Aba", county |-> "Jiuzhaigou",
        region |-> "Sichuan Aba",
        tags |-> <<"Nature", "Hiking", "Photography">>,
        imageUrl |-> "https://picsum.photos/800/600?random=4",
        gallery |-> <<"https://picsum.photos/800/600?random=401",
                      "https://picsum.photos/800/600?random=402",
                      "https://picsum.photos/800/600?random=403",
                      "https://picsum.photos/800/600?random=404">>,
        openHours |-> "08:00 - 17:00",
        drivingTips |-> "Mountain roads. Careful driving required in winter."],
       [id |-> "5",
        title |-> "Mount Qingcheng",
        description |-> "One of the birthplaces of Taoism, featuring lush forests and ancient temples.",
        address |-> "Dujiangyan, Chengdu, Sichuan",
        province |-> "Sichuan", city |-> "Chengdu", county |-> "Dujiangyan",
        region |-> "Sichuan Chengdu",
        tags |-> <<"Culture", "Hiking", "Mountain">>,
        imageUrl |-> "https://picsum.photos/800/600?random=5",
        openHours |-> "08:00 - 17:30",
        drivingTips |-> "Take Chengguan Expressway. Parking lot is 2km from gate (shuttle available)."] >>

\* The product fixtures (api.ts 115-140); prices are in cents.
MOCK_PRODUCTS ==
    << [id |-> "p1", merchantId |-> "m1", merchantName |-> "Panda Souvenirs",
        attractionId |-> "1",
        attractionName |-> "Chengdu Research Base of Giant Panda Breeding",
        name |-> "Plush Panda Toy", description |-> "Soft and cuddly panda plush.",
        price |-> 2500, stock |-> 100,
        imageUrl |-> "https://picsum.photos/400/400?random=10"],
       [id |-> "p2", merchantId |-> "m1", merchantName |-> "Panda Souvenirs",
        attractionId |-> "5", attractionName |-> "Mount Qingcheng",
        name |-> "Bamboo Fan", description |-> "Traditional hand fan made of bamboo.",
        price |-> 1250, stock |-> 50,
        imageUrl |-> "https://picsum.photos/400/400?random=11"] >>

\* Inputs of the attraction operations.
AttractionDataInputs ==
    { [title |-> "Leshan Giant Buddha", description |-> "A 71-metre stone statue.",
       address |-> "2345 Lingyun Rd, Leshan", province |-> "Sichuan",
       city |-> "Leshan", county |-> "Shizhong"],
      [title |-> "The Bund", description |-> "Waterfront promenade.",
       address |-> "Zhongshan East 1st Rd, Shanghai", province |-> "Shanghai",
       city |-> "Shanghai", county |-> "Huangpu", tags |-> <<"History">>,
       imageUrl |-> "data:image/jpeg", gallery |-> <<"data:image/gif">>,
       openHours |-> "24 Hours"] }
UpdateAttractionInputs ==
    { <<"1", [title |-> "Panda Base"]>>,
      <<"1", [id |-> "2"]>>,
      <<"attr-0", [title |-> "Panda Base", openHours |-> "09:00 - 17:00"]>>,
      <<"attr-404", [title |-> "Panda Base"]>> }
DeleteAttractionIdInputs == {"1", "2", "attr-0", "attr-404"}
FixtureAttractionIds == {MOCK_ATTRACTIONS[i].id : i \in DOMAIN MOCK_ATTRACTIONS}

\* Array.prototype.findIndex, given the indices (counted from 1) whose
\* element satisfies the test: the least of them; 0 when there is none (-1).
FindIndex(matches) ==
    IF matches = {}
    THEN 0
    ELSE CHOOSE i \in matches : \A j \in matches : i <= j

\* Inputs of getAttractions.
AttractionFilterInputs ==
    { <<>>,
      [province |-> "Sichuan", query |-> ""],
      [county |-> "Xihu"],
      [tag |-> "Nature"],
      [city |-> "Chengdu", query |-> "PANDA"] }

\* String.prototype.includes
includes(s, q) ==
    \E i \in 1..(Len(s) - Len(q) + 1) : SubSeq(s, i, i + Len(q) - 1) = q

\* Mutant of filterAttractions: the query is matched without lower-casing.
filterAttractions_caseSensitive(all, filters) ==
    LET byProvince == IF Truthy(Get(filters, "province"))
                      THEN SelectSeq(all, LAMBDA a : Get(a, "province") = filters.province)
                      ELSE all
        byCity == IF Truthy(Get(filters, "city"))
                  THEN SelectSeq(byProvince, LAMBDA a : Get(a, "city") = filters.city)
                  ELSE byProvince
        byCounty == IF Truthy(Get(filters, "county"))
                    THEN SelectSeq(byCity, LAMBDA a : Get(a, "county") = filters.county)
                    ELSE byCity
        byTag == IF Truthy(Get(filters, "tag"))
                 THEN SelectSeq(byCounty, LAMBDA a :
                         \E j \in DOMAIN a.tags : a.tags[j] = filters.tag)
                 ELSE byCounty
        byQuery == IF Truthy(Get(filters, "query"))
                   THEN SelectSeq(byTag, LAMBDA a :
                           \/ includes(a.title, filters.query)
                           \/ includes(a.description, filters.query))
                   ELSE byTag
    IN  Ok(byQuery)

\* The filter chain of getAttractions (api.ts 219-229).  a.tags.includes and
\* a.title.toLowerCase() raise a TypeError on an attraction without the field.
filterAttractions(all, filters) ==
    LET byProvince == IF Truthy(Get(filters, "province"))
                      THEN SelectSeq(all, LAMBDA a : Get(a, "province") = filters.province)
                      ELSE all
        byCity == IF Truthy(Get(filters, "city"))
                  THEN SelectSeq(byProvince, LAMBDA a : Get(a, "city") = filters.city)
                  ELSE byProvince
        byCounty == IF Truthy(Get(filters, "county"))
                    THEN SelectSeq(byCity, LAMBDA a : Get(a, "county") = filters.county)
                    ELSE byCity
        tagThrows == /\ Truthy(Get(filters, "tag"))
                     /\ \E i \in DOMAIN byCounty : "tags" \notin DOMAIN byCounty[i]
        byTag == IF Truthy(Get(filters, "tag"))
                 THEN SelectSeq(byCounty, LAMBDA a :
                         \E j \in DOMAIN a.tags : a.tags[j] = filters.tag)
                 ELSE byCounty
        q == toLowerCase(filters.query)
        queryThrows ==
            /\ Truthy(Get(filters, "query"))
            /\ \E i \in DOMAIN byTag :
                  \/ "title" \notin DOMAIN byTag[i]
                  \/ /\ ~includes(toLowerCase(byTag[i].title), q)
                     /\ "description" \notin DOMAIN byTag[i]
        byQuery == IF Truthy(Get(filters, "query"))
                   THEN SelectSeq(byTag, LAMBDA a :
                           \/ includes(toLowerCase(a.title), q)
                           \/ includes(toLowerCase(a.description), q))
                   ELSE byTag
    IN  IF tagThrows \/ queryThrows THEN Rejected("TypeError") ELSE Ok(byQuery)

\* Mutant of getAttractions: a read of the defaults also seeds the store.
getAttractions_persistDefaults(filters) ==
    LET data == getStorage("mock_attractions", MOCK_ATTRACTIONS)
    IN  Resolve("getAttractions", [filters |-> filters],
                filterAttractions(data, filters),
                setStorage("mock_attractions", data))

getAttractions(filters) ==
    LET data == getStorage("mock_attractions", MOCK_ATTRACTIONS)
    IN  Resolve("getAttractions", [filters |-> filters],
                filterAttractions(data, filters), localStorage)

\* The envelope getAttractionById returns for an attraction slice.
attractionById(data, id) ==
    LET attraction == Find(SelectSeq(data, LAMBDA a : a.id = id))
    IN  IF attraction # <<>> THEN Ok(attraction[1]) ELSE Fail("Not found")

getAttractionById(id) ==
    LET data == getStorage("mock_attractions", MOCK_ATTRACTIONS)
    IN  Resolve("getAttractionById", [id |-> id], attractionById(data, id),
                localStorage)

\* Mutant of newAttractionOf: tags, imageUrl and gallery are copied from the
\* input without their defaults.
newAttractionOf_noDefaults(attractionData, t) ==
    [id |-> Template("attr-", t),
     title |-> Get(attractionData, "title"),
     description |-> Get(attractionData, "description"),
     address |-> Get(attractionData, "address"),
     province |-> Get(attractionData, "province"),
     city |-> Get(attractionData, "city"),
     county |-> Get(attractionData, "county"),
     region |-> Get(attractionData, "province") \o " " \o Get(attractionData, "city"),
     tags |-> IF "tags" \in DOMAIN attractionData THEN attractionData.tags ELSE <<>>,
     imageUrl |-> Get(attractionData, "imageUrl"),
     gallery |-> IF "gallery" \in DOMAIN attractionData
                 THEN attractionData.gallery ELSE <<>>,
     openHours |-> Get(attractionData, "openHours"),
     drivingTips |-> Get(attractionData, "drivingTips")]

\* newAttraction of createAttraction, built at Date.now() = t (api.ts 242-256).
newAttractionOf(attractionData, t) ==
    [id |-> Template("attr-", t),
     title |-> Get(attractionData, "title"),
     description |-> Get(attractionData, "description"),
     address |-> Get(attractionData, "address"),
     province |-> Get(attractionData, "province"),
     city |-> Get(attractionData, "city"),
     county |-> Get(attractionData, "county"),
     region |-> Get(attractionData, "province") \o " " \o Get(attractionData, "city"),
     tags |-> IF "tags" \in DOMAIN attractionData THEN attractionData.tags ELSE <<>>,
     imageUrl |-> OrElse(Get(attractionData, "imageUrl"),
                         "https://picsum.photos/800/600?random=99"),
     gallery |-> IF "gallery" \in DOMAIN attractionData
                 THEN attractionData.gallery ELSE <<>>,
     openHours |-> Get(attractionData, "openHours"),
     drivingTips |-> Get(attractionData, "drivingTips")]

createAttraction(attractionData) ==
    LET attractions == getStorage("mock_attractions", MOCK_ATTRACTIONS)
        newAttraction == newAttractionOf(attractionData, now)
    IN  /\ Len(attractions) < Len(MOCK_ATTRACTIONS) + MaxNewAttractions
        /\ Cardinality({i \in DOMAIN attractions :
                            attractions[i].id \notin FixtureAttractionIds}) < MaxNewAttractions
        /\ Resolve("createAttraction", [attractionData |-> attractionData],
                   Ok(newAttraction),
                   setStorage("mock_attractions", <<newAttraction>> \o attractions))

\* Mutant of updateAttraction: a missing id is reported as a success.
updateAttraction_noNotFound(id, updates) ==
    LET attractions == getStorage("mock_attractions", MOCK_ATTRACTIONS)
        index == FindIndex({i \in DOMAIN attractions : attractions[i].id = id})
    IN  IF index = 0
        THEN Resolve("updateAttraction", [id |-> id, updates |-> updates],
                     Ok(updates), setStorage("mock_attractions", attractions))
        ELSE LET updatedAttraction == Spread(attractions[index], updates)
             IN  Resolve("updateAttraction", [id |-> id, updates |-> updates],
                         Ok(updatedAttraction),
                         setStorage("mock_attractions",
                                    [attractions EXCEPT ![index] = updatedAttraction]))

\* Mutant of updateAttraction: the new title is also written into the
\* products linked to the attraction.
updateAttraction_syncProducts(id, updates) ==
    LET attractions == getStorage("mock_attractions", MOCK_ATTRACTIONS)
        index == FindIndex({i \in DOMAIN attractions : attractions[i].id = id})
        products == getStorage("mock_products", MOCK_PRODUCTS)
    IN  IF index = 0
        THEN Resolve("updateAttraction", [id |-> id, updates |-> updates],
                     Fail("Attraction not found"), localStorage)
        ELSE LET updatedAttraction == Spread(attractions[index], updates)
                 synced == [i \in DOMAIN products |->
                               IF Get(products[i], "attractionId") = id
                               THEN Spread(products[i],
                                           [attractionName |-> updatedAttraction.title])
                               ELSE products[i]]
                 store == setStorage("mock_attractions",
                                     [attractions EXCEPT ![index] = updatedAttraction])
             IN  Resolve("updateAttraction", [id |-> id, updates |-> updates],
                         Ok(updatedAttraction),
                         [k \in DOMAIN store \cup {"mock_products"} |->
                             IF k = "mock_products"
                             THEN JSONstringify(synced) ELSE store[k]])

\* attractions[index] = updatedAttraction assigns in place in the array
\* getStorage returned; the array is then written, and read from the store
\* from then on.
updateAttraction(id, updates) ==
    LET attractions == getStorage("mock_attractions", MOCK_ATTRACTIONS)
        index == FindIndex({i \in DOMAIN attractions : attractions[i].id = id})
    IN  IF index = 0
        THEN Resolve("updateAttraction", [id |-> id, updates |-> updates],
                     Fail("Attraction not found"), localStorage)
        ELSE LET updatedAttraction == Spread(attractions[index], updates)
             IN  Resolve("updateAttraction", [id |-> id, updates |-> updates],
                         Ok(updatedAttraction),
                         setStorage("mock_attractions",
                                    [attractions EXCEPT ![index] = updatedAttraction]))

\* Mutant of deleteAttraction: the posts of the attraction go with it.
deleteAttraction_cascadesToPosts(id) ==
    LET attractions == getStorage("mock_attractions", MOCK_ATTRACTIONS)
        kept == SelectSeq(attractions, LAMBDA a : a.id # id)
        posts == getStorage("mock_posts", <<>>)
        store == setStorage("mock_attractions", kept)
    IN  Resolve("deleteAttraction", [id |-> id], Ok(TRUE),
                [k \in DOMAIN store \cup {"mock_posts"} |->
                    IF k = "mock_posts"
                    THEN JSONstringify(SelectSeq(posts,
                             LAMBDA q : Get(q, "attractionId") # id))
                    ELSE store[k]])

deleteAttraction(id) ==
    LET attractions == getStorage("mock_attractions", MOCK_ATTRACTIONS)
        kept == SelectSeq(attractions, LAMBDA a : a.id # id)
    IN  Resolve("deleteAttraction", [id |-> id], Ok(TRUE),
                setStorage("mock_attractions", kept))

NextAttraction ==
    \/ Tick
    \/ \E id \in DeleteAttractionIdInputs : getAttractionById(id)
    \/ \E attractionData \in AttractionDataInputs : createAttraction(attractionData)
    \/ \E upd \in UpdateAttractionInputs : updateAttraction(upd[1], upd[2])
    \/ \E id \in DeleteAttractionIdInputs : deleteAttraction(id)

SpecAttraction == Init /\ [][NextAttraction]_vars

----------------------------------------------------------------------------
(* MERCHANT & PRODUCT SERVICES *)

\* Inputs of the product operations.
ProductInputs ==
    { [merchantId |-> "m1", merchantName |-> "Panda Souvenirs",
       attractionId |-> "1", attractionName |-> "Supplied by the caller",
       name |-> "Panda Keyring", description |-> "A keyring.",
       price |-> 500, stock |-> 10, imageUrl |-> "data:image/png"],
      [merchantId |-> "u-0", attractionId |-> "",
       name |-> "Postcard", description |-> "A postcard.",
       price |-> 100, stock |-> 1],
      [merchantId |-> "m1", merchantName |-> "Panda Souvenirs",
       attractionId |-> "attr-404", attractionName |-> "Supplied by the caller",
       name |-> "Tea", description |-> "Green tea.",
       price |-> 900, stock |-> 5, imageUrl |-> "data:image/png"] }

getProducts(merchantId, attractionId) ==
    LET all == getStorage("mock_products", MOCK_PRODUCTS)
        byMerchant == IF Truthy(merchantId)
                      THEN SelectSeq(all, LAMBDA p : p.merchantId = merchantId)
                      ELSE all
        allProducts == IF Truthy(attractionId)
                       THEN SelectSeq(byMerchant,
                                      LAMBDA p : Get(p, "attractionId") = attractionId)
                       ELSE byMerchant
    IN  Resolve("getProducts", [merchantId |-> merchantId, attractionId |-> attractionId],
                Ok(allProducts), localStorage)

getProductById(id) ==
    LET allProducts == getStorage("mock_products", MOCK_PRODUCTS)
        product == Find(SelectSeq(allProducts, LAMBDA p : p.id = id))
    IN  Resolve("getProductById", [id |-> id],
                IF product # <<>> THEN Ok(product[1]) ELSE Fail("Not found"),
                localStorage)

\* Mutant of attractionNameOf: a name supplied by the caller is kept.
attractionNameOf_fromCaller(product, attractions) ==
    IF Truthy(Get(product, "attractionName"))
    THEN product.attractionName
    ELSE IF Truthy(Get(product, "attractionId"))
         THEN LET attr == Find(SelectSeq(attractions,
                                         LAMBDA a : a.id = product.attractionId))
              IN  IF attr # <<>> THEN Get(attr[1], "title") ELSE Undefined
         ELSE Undefined

\* attractionName of createProduct (api.ts 348-353).
attractionNameOf(product, attractions) ==
    IF Truthy(Get(product, "attractionId"))
    THEN LET attr == Find(SelectSeq(attractions,
                                    LAMBDA a : a.id = product.attractionId))
         IN  IF attr # <<>> THEN Get(attr[1], "title") ELSE Undefined
    ELSE Undefined

createProduct(product) ==
    LET attractionName ==
            attractionNameOf(product, getStorage("mock_attractions", MOCK_ATTRACTIONS))
        newProduct ==
            [id |-> Template("prod-", now),
             merchantId |-> Get(product, "merchantId"),
             merchantName |-> OrElse(Get(product, "merchantName"), "My Store"),
             attractionId |-> Get(product, "attractionId"),
             attractionName |-> attractionName,
             name |-> Get(product, "name"),
             description |-> Get(product, "description"),
             price |-> product.price,
             stock |-> product.stock,
             imageUrl |-> OrElse(Get(product, "imageUrl"),
                                 Template("https://picsum.photos/400/400?random=", now))]
        products == getStorage("mock_products", MOCK_PRODUCTS)
    IN  /\ Len(products) < Len(MOCK_PRODUCTS) + MaxNewProducts
        /\ Resolve("createProduct", [product |-> product], Ok(newProduct),
                   setStorage("mock_products", products \o <<newProduct>>))

\* The product operations next to the admin's edits of the attractions.
NextProduct ==
    \/ Tick
    \/ \E merchantId \in {Undefined, "m1"}, attractionId \in {Undefined, "1"} :
          getProducts(merchantId, attractionId)
    \/ \E id \in {"p1", "prod-0", "prod-404"} : getProductById(id)
    \/ \E product \in ProductInputs : createProduct(product)
    \/ \E upd \in UpdateAttractionInputs : updateAttraction(upd[1], upd[2])
    \/ \E id \in DeleteAttractionIdInputs : deleteAttraction(id)

SpecProduct == Init /\ [][NextProduct]_vars

----------------------------------------------------------------------------
(* ORDER SERVICES *)

\* Inputs of the order operations.
OrderDataInputs ==
    { [userId |-> "u1",
       items |-> <<Spread(MOCK_PRODUCTS[1], [quantity |-> 2])>>,
       total |-> 5000] }
OrderIdInputs == {"ord-0", "ord-1", "ord-404"}
OrderStatusInputs == {"shipped", "delivered"}
TrackingInputs == {Undefined, "", "TRACK99"}

createOrder(orderData) ==
    LET newOrder ==
            [id |-> Template("ord-", now),
             userId |-> Get(orderData, "userId"),
             items |-> orderData.items,
             total |-> orderData.total,
             status |-> "pending",
             createdAt |-> toISOString(now)]
        orders == getStorage("mock_orders", <<>>)
    IN  /\ Len(orders) < MaxOrders
        /\ Resolve("createOrder", [orderData |-> orderData], Ok(newOrder),
                   setStorage("mock_orders", <<newOrder>> \o orders))

\* Mutant of getOrders: the merchant filter is skipped when a purchaser is given.
getOrders_merchantOnlyAlone(userId, merchantId) ==
    LET all == getStorage("mock_orders", <<>>)
        orders == IF Truthy(userId)
                  THEN SelectSeq(all, LAMBDA o : o.userId = userId)
                  ELSE IF Truthy(merchantId)
                  THEN SelectSeq(all, LAMBDA o :
                          \E i \in DOMAIN o.items : o.items[i].merchantId = merchantId)
                  ELSE all
    IN  Resolve("getOrders", [userId |-> userId, merchantId |-> merchantId],
                Ok(orders), localStorage)

getOrders(userId, merchantId) ==
    LET all == getStorage("mock_orders", <<>>)
        byUser == IF Truthy(userId)
                  THEN SelectSeq(all, LAMBDA o : o.userId = userId)
                  ELSE all
        orders == IF Truthy(merchantId)
                  THEN SelectSeq(byUser, LAMBDA o :
                          \E i \in DOMAIN o.items : o.items[i].merchantId = merchantId)
                  ELSE byUser
    IN  Resolve("getOrders", [userId |-> userId, merchantId |-> merchantId],
                Ok(orders), localStorage)

\* Mutant of updatedOrderOf: the tracking argument always replaces the
\* stored tracking number.
updatedOrderOf_overwriteTracking(o, status, trackingNumber) ==
    Spread(o, [status |-> status, trackingNumber |-> trackingNumber])

\* Mutant of updatedOrderOf: the new status is hard-coded as shipped.
updatedOrderOf_alwaysShipped(o, status, trackingNumber) ==
    Spread(o, [status |-> "shipped",
               trackingNumber |-> OrElse(trackingNumber, Get(o, "trackingNumber"))])

\* The replacement of a matching order (api.ts 406).
updatedOrderOf(o, status, trackingNumber) ==
    Spread(o, [status |-> status,
               trackingNumber |-> OrElse(trackingNumber, Get(o, "trackingNumber"))])

\* Mutant of updateOrderStatus: the `if (!updatedOrder)` check is missing.
updateOrderStatus_noNotFound(orderId, status, trackingNumber) ==
    LET orders == getStorage("mock_orders", <<>>)
        matches == {i \in DOMAIN orders : orders[i].id = orderId}
        updatedOrders == [i \in DOMAIN orders |->
                            IF i \in matches
                            THEN updatedOrderOf(orders[i], status, trackingNumber)
                            ELSE orders[i]]
        args == [orderId |-> orderId, status |-> status,
                 trackingNumber |-> trackingNumber]
    IN  Resolve("updateOrderStatus", args,
                IF matches = {}
                THEN Ok("null")
                ELSE Ok(updatedOrders[CHOOSE i \in matches : \A j \in matches : j <= i]),
                setStorage("mock_orders", updatedOrders))

updateOrderStatus(orderId, status, trackingNumber) ==
    LET orders == getStorage("mock_orders", <<>>)
        matches == {i \in DOMAIN orders : orders[i].id = orderId}
        updatedOrders == [i \in DOMAIN orders |->
                            IF i \in matches
                            THEN updatedOrderOf(orders[i], status, trackingNumber)
                            ELSE orders[i]]
        args == [orderId |-> orderId, status |-> status,
                 trackingNumber |-> trackingNumber]
    IN  IF matches = {}
        THEN Resolve("updateOrderStatus", args, Fail("Order not found"), localStorage)
        ELSE \* updatedOrder is the replacement of the last matching order
             Resolve("updateOrderStatus", args,
                     Ok(updatedOrders[CHOOSE i \in matches : \A j \in matches : j <= i]),
                     setStorage("mock_orders", updatedOrders))

NextOrder ==
    \/ Tick
    \/ \E orderData \in OrderDataInputs : createOrder(orderData)
    \/ \E userId \in {Undefined, "u1"}, merchantId \in {Undefined, "m1", "m2"} :
          getOrders(userId, merchantId)
    \/ \E orderId \in OrderIdInputs, status \in OrderStatusInputs,
          trackingNumber \in TrackingInputs :
          updateOrderStatus(orderId, status, trackingNumber)

SpecOrder == Init /\ [][NextOrder]_vars

\* MerchantDashboard.handleShipOrder (App.tsx 789-801): the only caller of
\* updateOrderStatus; it returns early without a tracking number.
handleShipOrder(orderId, tracking) ==
    /\ Truthy(tracking)
    /\ updateOrderStatus(orderId, "shipped", tracking)

\* The order services as the application calls them, next to direct calls
\* of updateOrderStatus with any declared status.
NextShop ==
    \/ Tick
    \/ \E orderData \in OrderDataInputs : createOrder(orderData)
    \/ getOrders(Undefined, "m1")
    \/ \E orderId \in OrderIdInputs, tracking \in TrackingInputs :
          handleShipOrder(orderId, tracking)
    \/ \E orderId \in OrderIdInputs, status \in OrderStatusInputs \cup {"pending", "cancelled"} :
          updateOrderStatus(orderId, status, Undefined)

SpecShop == Init /\ [][NextShop]_vars

\* Checkouts of two purchasers over the goods of two merchants, and the
\* order lists of the purchaser's and of the merchant's page.
CheckoutInputs ==
    { [userId |-> "u1",
       items |-> <<Spread(MOCK_PRODUCTS[1], [quantity |-> 2])>>,
       total |-> 5000],
      [userId |-> "u2",
       items |-> <<Spread(MOCK_PRODUCTS[2], [quantity |-> 1]),
                   Spread(MOCK_PRODUCTS[1], [merchantId |-> "m2", quantity |-> 1])>>,
       total |-> 3750],
      [userId |-> "u1", items |-> <<>>, total |-> 0] }

NextOrderList ==
    \/ \E orderData \in CheckoutInputs : createOrder(orderData)
    \/ \E userId \in {Undefined, "", "u1", "u2", "u9"},
          merchantId \in {Undefined, "", "m1", "m2", "m9"} :
          getOrders(userId, merchantId)
    \/ \E orderId \in {"ord-0"} : updateOrderStatus(orderId, "shipped", "TRACK99")

SpecOrderList == Init /\ [][NextOrderList]_vars

----------------------------------------------------------------------------
(* The list operations of every entity type next to writes of their slices *)

ListOperations ==
    {"getAttractions", "getPosts", "getProducts", "getOrders",
     "getReportedContent", "getPendingMerchants"}

NextRead ==
    \/ \E filters \in AttractionFilterInputs : getAttractions(filters)
    \/ \E attractionId \in {Undefined, "1"} : getPosts(attractionId)
    \/ \E merchantId \in {Undefined, "m1"} : getProducts(merchantId, Undefined)
    \/ \E userId \in {Undefined, "u1"} : getOrders(userId, Undefined)
    \/ getReportedContent
    \/ getPendingMerchants
    \/ \E postData \in {d \in PostDataInputs : d.attractionId = "1"} :
          createPost(postData)
    \/ reportPost("post-0")
    \/ \E orderData \in OrderDataInputs : createOrder(orderData)
    \/ \E product \in {p \in ProductInputs : Get(p, "attractionId") = "1"} :
          createProduct(product)
    \/ deleteAttraction("1")
    \/ \E userData \in {u \in UserDataInputs : Get(u, "username") = "Ann"} :
          register(userData)

SpecRead == Init /\ [][NextRead]_vars

----------------------------------------------------------------------------
(* Calls in flight: `await delay(DELAY_MS)` sets a timer and returns to the  *)
(* caller, which may issue further calls; the body of a call runs when its   *)
(* timer fires.                                                              *)

\* The calls on the post slice that the caller issues.
FlightInputs ==
    { [op |-> "createPost",
       args |-> [postData |-> [attractionId |-> "1", userId |-> "u1",
                               username |-> "Traveler User",
                               content |-> "Lovely pandas"]]],
      [op |-> "reportPost", args |-> [postId |-> "post-0"]],
      [op |-> "moderateContent", args |-> [id |-> "post-0", action |-> "delete"]],
      [op |-> "moderateContent", args |-> [id |-> "post-0", action |-> "approve"]],
      [op |-> "getPosts", args |-> [attractionId |-> "1"]] }

\* The caller issues a call: its timer is queued behind the pending ones.
Issue(c) ==
    /\ issued < MaxIssued
    /\ c.op = "createPost" =>
          Len(getStorage("mock_posts", <<>>))
            + Cardinality({i \in DOMAIN inflight : inflight[i].op = "createPost"})
          < MaxPosts
    /\ c.op = "createOrder" =>
          Len(getStorage("mock_orders", <<>>))
            + Cardinality({i \in DOMAIN inflight : inflight[i].op = "createOrder"})
          < MaxOrders
    /\ inflight' = [i \in DOMAIN inflight |-> [inflight[i] EXCEPT !.overlapped = TRUE]]
                   \o << [op |-> c.op, args |-> c.args, ticket |-> issued + 1,
                          overlapped |-> inflight # <<>>] >>
    /\ issued' = issued + 1
    /\ UNCHANGED <<localStorage, now, last, prev, memo, settled,
                   user, fromLoad, cart, cartLast>>

\* Mutant of Fire: a timer fires only when no other call is pending.
Fire_blockedByPending ==
    /\ Len(inflight) = 1
    /\ LET c == Head(inflight)
       IN  CASE c.op = "createPost" -> createPost(c.args.postData)
             [] c.op = "reportPost" -> reportPost(c.args.postId)
             [] c.op = "moderateContent" -> moderateContent(c.args.id, c.args.action)
             [] c.op = "getPosts" -> getPosts(c.args.attractionId)
             [] c.op = "createOrder" -> createOrder(c.args.orderData)

\* Mutant of Fire: the body of a creation works on the slice as it was
\* before the call that resolved last, and writes that back.
Fire_staleSlice ==
    /\ inflight # <<>>
    /\ LET c == Head(inflight)
           stalePosts == Slice(prev, "mock_posts", <<>>)
           staleOrders == Slice(prev, "mock_orders", <<>>)
       IN  CASE c.op = "createPost" ->
                  Resolve("createPost", c.args,
                          Ok([id |-> Template("post-", now),
                              content |-> c.args.postData.content]),
                          setStorage("mock_posts",
                                     <<[id |-> Template("post-", now),
                                        attractionId |-> c.args.postData.attractionId,
                                        content |-> c.args.postData.content,
                                        likes |-> 0, comments |-> <<>>,
                                        status |-> "active"]>> \o stalePosts))
             [] c.op = "createOrder" ->
                  Resolve("createOrder", c.args,
                          Ok([id |-> Template("ord-", now), status |-> "pending"]),
                          setStorage("mock_orders",
                                     <<[id |-> Template("ord-", now),
                                        userId |-> c.args.orderData.userId,
                                        items |-> c.args.orderData.items,
                                        total |-> c.args.orderData.total,
                                        status |-> "pending"]>> \o staleOrders))
             [] c.op = "reportPost" -> reportPost(c.args.postId)
             [] c.op = "moderateContent" -> moderateContent(c.args.id, c.args.action)
             [] c.op = "getPosts" -> getPosts(c.args.attractionId)

\* The oldest timer fires and the body of its call runs to its return.
Fire ==
    /\ inflight # <<>>
    /\ LET c == Head(inflight)
       IN  CASE c.op = "createPost" -> createPost(c.args.postData)
             [] c.op = "reportPost" -> reportPost(c.args.postId)
             [] c.op = "moderateContent" -> moderateContent(c.args.id, c.args.action)
             [] c.op = "getPosts" -> getPosts(c.args.attractionId)
             [] c.op = "createOrder" -> createOrder(c.args.orderData)

NextFlight ==
    \/ Tick
    \/ \E c \in FlightInputs : Issue(c)
    \/ Fire

\* Creations on the post and order slices issued while others are pending.
RaceInputs ==
    { [op |-> "createPost",
       args |-> [postData |-> [attractionId |-> "1", userId |-> "u1",
                               username |-> "Traveler User",
                               content |-> "Lovely pandas"]]],
      [op |-> "createPost",
       args |-> [postData |-> [attractionId |-> "2", userId |-> "u2",
                               username |-> "Ann", content |-> "Crowded"]]],
      [op |-> "createOrder",
       args |-> [orderData |-> [userId |-> "u1",
                                items |-> <<Spread(MOCK_PRODUCTS[1], [quantity |-> 2])>>,
                                total |-> 5000]]] }

NextRace ==
    \/ Tick
    \/ \E c \in RaceInputs : Issue(c)
    \/ Fire

SpecRace == Init /\ [][NextRace]_vars /\ WF_inflight(Fire)

\* The event loop runs a timer that is due (a Fire step always shortens the
\* queue).
SpecFlight == Init /\ [][NextFlight]_vars /\ WF_inflight(Fire)

----------------------------------------------------------------------------
(* UTILS: uploadFile, and the calls whose promise can be rejected *)

\* A File, by its media type and the base-64 text of its bytes.
FileInputs ==
    { [type |-> "image/png", base64 |-> "iVBORw0KGgo="],
      [type |-> "image/jpeg", base64 |-> "/9j/4AAQ"] }

\* FileReader.readAsDataURL ends in onload with the data URL or in onerror
\* (a file that cannot be read); which one is the browser's to decide.
uploadFile(file, loaded) ==
    Resolve("uploadFile", [file |-> file],
            IF loaded
            THEN Fulfilled("data:" \o file.type \o ";base64," \o file.base64)
            ELSE Rejected("ProgressEvent"),
            localStorage)

NextFault ==
    \/ Tick
    \/ \E file \in FileInputs, loaded \in BOOLEAN : uploadFile(file, loaded)
    \/ \E userData \in {[role |-> "merchant", qualificationUrl |-> "data:license"],
                        [email |-> "a@x.com", role |-> "merchant",
                         qualificationUrl |-> "data:license"]} :
          register(userData)
    \/ \E email \in EmailInputs : login(email)
    \/ \E userId \in UserIdInputs : updateUserStatus(userId, "active")

SpecFault == Init /\ [][NextFault]_vars

----------------------------------------------------------------------------
(* getAttractions over a slice that the admin operations change *)

SearchFilterInputs ==
    AttractionFilterInputs \cup
    { [province |-> "Sichuan", tag |-> "Hiking"],
      [province |-> "Beijing", city |-> "Chengdu"],
      [city |-> "Chengdu", query |-> "taoISM"],
      [city |-> "Chengdu", tag |-> "Nature", query |-> "base"],
      [county |-> "Huangpu", tag |-> "Museum"],
      [province |-> "", city |-> "", county |-> "", tag |-> "", query |-> ""] }

NextSearch ==
    \/ \E filters \in SearchFilterInputs : getAttractions(filters)
    \/ \E attractionData \in AttractionDataInputs : createAttraction(attractionData)
    \/ \E upd \in {u \in UpdateAttractionInputs : "title" \in DOMAIN u[2]} :
          updateAttraction(upd[1], upd[2])
    \/ \E id \in {"1", "5"} : deleteAttraction(id)

SpecSearch == Init /\ [][NextSearch]_vars

----------------------------------------------------------------------------
(* The session of App: the user state and its copy under the key 'user' *)

\* localStorage after setItem('user', JSON.stringify(u)).
setItemUser(u) ==
    [k \in DOMAIN localStorage \cup {"user"} |->
        IF k = "user" THEN [text |-> StringifyObject(u)] ELSE localStorage[k]]

\* localStorage after removeItem('user').
removeItemUser == [k \in DOMAIN localStorage \ {"user"} |-> localStorage[k]]

\* handleSubmit of the login form: API.login, then login(res.data) of App
\* when the envelope is a success.
handleSubmit(email) ==
    LET res == loginResponse(email)
    IN  /\ Settle("login", [email |-> email], res,
                  IF res.success THEN setItemUser(res.data) ELSE localStorage)
        /\ user' = IF res.success THEN <<res.data>> ELSE user
        /\ fromLoad' = IF res.success THEN FALSE ELSE fromLoad
        /\ UNCHANGED <<cart, cartLast>>

logout ==
    /\ user # <<>>
    /\ user' = <<>>
    /\ fromLoad' = FALSE
    /\ localStorage' = removeItemUser
    /\ UNCHANGED <<now, last, prev, memo, inflight, issued, settled, cart, cartLast>>

\* window.location.reload(): App is mounted again, its user state computed
\* from the key 'user', its cart empty, the timers of the old page gone.
reload ==
    /\ user' = IF "user" \in DOMAIN localStorage
               THEN <<JSONparse(localStorage["user"])>>
               ELSE <<>>
    /\ fromLoad' = TRUE
    /\ cart' = <<>>
    /\ cartLast' = NoCartCall
    /\ inflight' = <<>>
    /\ UNCHANGED <<localStorage, now, last, prev, memo, issued, settled>>

\* What MerchantDashboard renders for the user state.
MerchantDashboard ==
    IF user = <<>> THEN "null"
    ELSE IF user[1].status = "pending" THEN "Account Pending Approval"
    ELSE IF user[1].status = "rejected" THEN "Application Rejected"
    ELSE "dashboard"

\* A merchant account is registered, logs in, is reviewed by the admin (from
\* a page that was loaded before), and the merchant's page is reloaded.
NextSession ==
    \/ \E userData \in {u \in UserDataInputs : Get(u, "role") = "merchant"} :
          register(userData)
    \/ \E email \in {"a@x.com", "merchant@test.com", "nobody@x.com"} : handleSubmit(email)
    \/ \E status \in {"active", "rejected"} : updateUserStatus("u-0", status)
    \/ logout
    \/ reload

SpecSession == Init /\ [][NextSession]_vars /\ WF_vars(reload)

----------------------------------------------------------------------------
(* The cart of App *)

\* Products put in the cart, and the quantities asked for.
CartProductInputs ==
    {MOCK_PRODUCTS[i] : i \in DOMAIN MOCK_PRODUCTS}
        \cup {[id |-> "prod-0", merchantId |-> "m1", merchantName |-> "Panda Souvenirs",
               attractionId |-> "1", attractionName |-> "Panda Base",
               name |-> "Postcard", description |-> "A postcard.",
               price |-> 300, stock |-> 10, imageUrl |-> Undefined]}
QtyInputs == {1, 2}

\* Mutant of addToCart: the product is always added as a new line.
addToCart_alwaysAppends(p, qty) ==
    /\ Len(cart) < 2 * Cardinality(CartProductInputs)
    /\ cart' = cart \o <<Spread(p, [quantity |-> qty])>>
    /\ cartLast' = [op |-> "addToCart", args |-> [p |-> p, qty |-> qty], before |-> cart]
    /\ UNCHANGED <<localStorage, now, last, prev, memo, inflight, issued, settled,
                   user, fromLoad>>

addToCart(p, qty) ==
    LET existing == Find(SelectSeq(cart, LAMBDA i : i.id = p.id))
    IN  /\ existing # <<>> => existing[1].quantity + qty <= MaxQuantity
        /\ cart' = IF existing # <<>>
                   THEN [k \in DOMAIN cart |->
                            IF cart[k].id = p.id
                            THEN Spread(cart[k], [quantity |-> cart[k].quantity + qty])
                            ELSE cart[k]]
                   ELSE cart \o <<Spread(p, [quantity |-> qty])>>
        /\ cartLast' = [op |-> "addToCart", args |-> [p |-> p, qty |-> qty],
                        before |-> cart]
        /\ UNCHANGED <<localStorage, now, last, prev, memo, inflight, issued, settled,
                       user, fromLoad>>

removeFromCart(id) ==
    /\ cart' = SelectSeq(cart, LAMBDA i : i.id # id)
    /\ cartLast' = [op |-> "removeFromCart", args |-> [id |-> id], before |-> cart]
    /\ UNCHANGED <<localStorage, now, last, prev, memo, inflight, issued, settled,
                   user, fromLoad>>

clearCart ==
    /\ cart' = <<>>
    /\ cartLast' = [op |-> "clearCart", args |-> <<>>, before |-> cart]
    /\ UNCHANGED <<localStorage, now, last, prev, memo, inflight, issued, settled,
                   user, fromLoad>>

NextCart ==
    \/ \E p \in CartProductInputs, qty \in QtyInputs : addToCart(p, qty)
    \/ \E id \in {"p1", "p2", "prod-0", "prod-404"} : removeFromCart(id)
    \/ clearCart

SpecCart == Init /\ [][NextCart]_vars

\* Attractions are deleted one by one, the seeded ones included, created
\* and listed.
NextWipe ==
    \/ \E filters \in {<<>>, [tag |-> "Nature"]} : getAttractions(filters)
    \/ \E attractionData \in AttractionDataInputs : createAttraction(attractionData)
    \/ \E id \in {MOCK_ATTRACTIONS[i].id : i \in DOMAIN MOCK_ATTRACTIONS} \cup {"attr-0"} :
          deleteAttraction(id)
    \/ \E id \in {"1", "attr-0"} : getAttractionById(id)

SpecWipe == Init /\ [][NextWipe]_vars

----------------------------------------------------------------------------
(* Properties *)

\* The slices before and after the call that resolved last.
PrevPosts == Slice(prev, "mock_posts", <<>>)
CurPosts == Slice(localStorage, "mock_posts", <<>>)

Ids(seq) == {seq[i].id : i \in DOMAIN seq}
Elems(seq) == {seq[i] : i \in DOMAIN seq}

\* C1: every envelope getPosts resolves with (with or without an
\* attractionId) holds no post with status reported, and every envelope
\* getReportedContent resolves with holds no post with status active.
C1_StatusFilter ==
    /\ call.op = "getPosts" =>
          \A i \in DOMAIN resp.data : resp.data[i].status # "reported"
    /\ call.op = "getReportedContent" =>
          \A i \in DOMAIN resp.data : resp.data[i].status # "active"

\* getPosts has resolved with some posts while the slice it filtered also
\* holds a reported post of the attraction asked for.
C1_Witness ==
    /\ call.op = "getPosts"
    /\ Len(resp.data) > 0
    /\ \E p \in Elems(CurPosts) :
          /\ p.status = "reported"
          /\ call.args.attractionId \in {Undefined, p.attractionId}

\* C2: when reportPost(p.id) has resolved for a post p that was active,
\* getPosts (for every attractionId argument) no longer returns a post with
\* p's id and getReportedContent returns p as reported; when
\* moderateContent(p.id, 'approve') has resolved for a post p that was
\* reported, getPosts returns p as active again (with no argument and with
\* p's attraction) and getReportedContent returns no post with p's id.
C2_ReportApprove ==
    /\ call.op = "reportPost" =>
          \A p \in Elems(PrevPosts) :
              (p.id = call.args.postId /\ p.status = "active") =>
                  /\ \A a \in AttractionIdInputs \cup {Undefined} :
                        p.id \notin Ids(visiblePosts(CurPosts, a))
                  /\ Spread(p, [status |-> "reported"]) \in Elems(reportedPosts(CurPosts))
    /\ (call.op = "moderateContent" /\ call.args.action = "approve") =>
          \A p \in Elems(PrevPosts) :
              (p.id = call.args.id /\ p.status = "reported") =>
                  /\ Spread(p, [status |-> "active"]) \in Elems(visiblePosts(CurPosts, Undefined))
                  /\ Spread(p, [status |-> "active"]) \in Elems(visiblePosts(CurPosts, p.attractionId))
                  /\ p.id \notin Ids(reportedPosts(CurPosts))

\* moderateContent(id, 'approve') has resolved for a post that was reported,
\* next to a second post.
C2_Witness ==
    /\ call.op = "moderateContent"
    /\ call.args.action = "approve"
    /\ Len(PrevPosts) > 1
    /\ \E p \in Elems(PrevPosts) : p.id = call.args.id /\ p.status = "reported"

PrevUsers == Slice(prev, "mock_users", INITIAL_USERS)
CurUsers == Slice(localStorage, "mock_users", INITIAL_USERS)
PrevOrders == Slice(prev, "mock_orders", <<>>)
CurOrders == Slice(localStorage, "mock_orders", <<>>)
PrevAttractions == Slice(prev, "mock_attractions", MOCK_ATTRACTIONS)
CurAttractions == Slice(localStorage, "mock_attractions", MOCK_ATTRACTIONS)

\* C3: when register is called with an email that equals, compared
\* case-insensitively, the email of a stored user, it resolves with
\* success=false and the store is left as it was.
C3_RegisterCaseInsensitive ==
    (/\ call.op = "register"
     /\ \E u \in Elems(PrevUsers) :
           toLowerCase(u.email) = toLowerCase(call.args.userData.email)) =>
        (resp.success = FALSE /\ localStorage = prev)

\* C4: no two users of the user slice have the same email.
C4_EmailUnique ==
    \A i, j \in DOMAIN CurUsers :
        i # j => CurUsers[i].email # CurUsers[j].email

\* A register has been refused for a taken email after two registrations
\* went through.
C4_Witness ==
    /\ call.op = "register"
    /\ resp.success = FALSE
    /\ Len(CurUsers) = Len(INITIAL_USERS) + 2
    /\ call.args.userData.email \in {CurUsers[i].email : i \in DOMAIN CurUsers}

\* C5: a register that succeeds returns, and appends to the user slice, a
\* user whose status is pending when the requested role is merchant and
\* active for any other role; with no role the user is a traveler.
C5_MerchantPending ==
    (call.op = "register" /\ resp.success) =>
        LET role == Get(call.args.userData, "role")
            stored == CurUsers[Len(CurUsers)]
        IN  /\ resp.data.status = "pending" <=> role = "merchant"
            /\ resp.data.status = "active" <=> role # "merchant"
            /\ stored = StringifyObject(resp.data)
            /\ Len(CurUsers) = Len(PrevUsers) + 1
            /\ role = Undefined => resp.data.role = "traveler"

\* A merchant has registered and is pending, after a registration with no
\* role that is active.
C5_Witness ==
    /\ call.op = "register"
    /\ resp.success
    /\ Get(call.args.userData, "role") = "merchant"
    /\ resp.data.status = "pending"
    /\ \E u \in Elems(PrevUsers) : u.id \notin {"admin1", "m1", "u1"} /\ u.status = "active"

\* The outcome of updateOrderStatus on an existing order, where the
\* tracking arguments outside notGiven count as a tracking number: the envelope
\* and every stored order with that id carry the new status; a given
\* tracking number is returned and stored; with no tracking argument each
\* such order keeps the tracking number it had.
OrderUpdateOutcome(notGiven) ==
    (call.op = "updateOrderStatus" /\ call.args.orderId \in Ids(PrevOrders)) =>
        LET a == call.args
            matches == {i \in DOMAIN PrevOrders : PrevOrders[i].id = a.orderId}
        IN  /\ resp.success
            /\ resp.data.id = a.orderId
            /\ resp.data.status = a.status
            /\ Len(CurOrders) = Len(PrevOrders)
            /\ \A i \in matches : CurOrders[i].status = a.status
            /\ a.trackingNumber \notin notGiven =>
                  /\ Get(resp.data, "trackingNumber") = a.trackingNumber
                  /\ \A i \in matches :
                        Get(CurOrders[i], "trackingNumber") = a.trackingNumber
            /\ a.trackingNumber = Undefined =>
                  /\ \A i \in matches :
                        Get(CurOrders[i], "trackingNumber") =
                            Get(PrevOrders[i], "trackingNumber")
                  /\ \E i \in matches :
                        Get(resp.data, "trackingNumber") =
                            Get(PrevOrders[i], "trackingNumber")

\* C6 as stated: updateOrderStatus(id, status, tracking) on an existing
\* order returns and stores the order with that status and
\* trackingNumber = tracking, for any tracking argument passed; with no
\* tracking argument the status changes and the stored tracking number stays.
C6_TrackingAsPassed == OrderUpdateOutcome({Undefined})

\* C6 amended: the same for a non-empty tracking argument.
C6_TrackingNonEmpty == OrderUpdateOutcome({Undefined, ""})

\* An order that carried TRACK99 has been given another status with no
\* tracking argument.
C6_Witness ==
    /\ call.op = "updateOrderStatus"
    /\ call.args.trackingNumber = Undefined
    /\ \E i \in DOMAIN PrevOrders :
          /\ PrevOrders[i].id = call.args.orderId
          /\ Get(PrevOrders[i], "trackingNumber") = "TRACK99"
          /\ PrevOrders[i].status # call.args.status
          /\ Get(CurOrders[i], "trackingNumber") = "TRACK99"

\* C7: updateOrderStatus with an id that matches no stored order resolves
\* with success=false and a message and leaves the store as it was.
C7_OrderNotFound ==
    (call.op = "updateOrderStatus" /\ call.args.orderId \notin Ids(PrevOrders)) =>
        /\ resp.success = FALSE
        /\ Truthy(Get(resp, "message"))
        /\ localStorage = prev

\* updateOrderStatus has missed while the slice holds orders.
C7_Witness ==
    /\ call.op = "updateOrderStatus"
    /\ call.args.orderId \notin Ids(PrevOrders)
    /\ Len(PrevOrders) > 0

\* C8: updateAttraction with an id that matches no stored attraction
\* resolves with success=false and a message and leaves the store as it was.
C8_AttractionNotFound ==
    (call.op = "updateAttraction" /\ call.args.id \notin Ids(PrevAttractions)) =>
        /\ resp.success = FALSE
        /\ Truthy(Get(resp, "message"))
        /\ localStorage = prev

\* updateAttraction has missed on the id of an attraction that was deleted.
C8_Witness ==
    /\ call.op = "updateAttraction"
    /\ call.args.id = "1"
    /\ call.args.id \notin Ids(PrevAttractions)
    /\ Len(PrevAttractions) > 0

\* C9: deleteAttraction with an id that matches no stored attraction
\* resolves with success=false and a message.
C9_DeleteMissingAttractionFails ==
    (call.op = "deleteAttraction" /\ call.args.id \notin Ids(PrevAttractions)) =>
        (resp.success = FALSE /\ Truthy(Get(resp, "message")))

\* C10: reportPost with an id that matches no stored post resolves with
\* success=false and a message.
C10_ReportMissingPostFails ==
    (call.op = "reportPost" /\ call.args.postId \notin Ids(PrevPosts)) =>
        (resp.success = FALSE /\ Truthy(Get(resp, "message")))

\* C11: when createAttraction(input) has resolved, getAttractionById of the
\* returned id on the store it left returns success with the input's fields
\* plus the generated id, region = province + ' ' + city, and the defaults
\* for tags, gallery and imageUrl where the input gives none.
C11_CreateThenGetById ==
    call.op = "createAttraction" =>
        LET input == call.args.attractionData
            got == attractionById(CurAttractions, resp.data.id)
        IN  /\ resp.success
            /\ got.success
            /\ resp.data.id \in {Template("attr-", t) : t \in 0..now}
            /\ got.data =
                  Spread([id |-> resp.data.id,
                          region |-> input.province \o " " \o input.city,
                          tags |-> <<>>,
                          gallery |-> <<>>,
                          imageUrl |-> "https://picsum.photos/800/600?random=99"],
                         input)

\* createAttraction has resolved for an input with no tags, gallery or image.
C11_Witness ==
    /\ call.op = "createAttraction"
    /\ DOMAIN call.args.attractionData \cap {"tags", "gallery", "imageUrl"} = {}
    /\ Len(CurAttractions) = Len(PrevAttractions) + 1

PrevProducts == Slice(prev, "mock_products", MOCK_PRODUCTS)
CurProducts == Slice(localStorage, "mock_products", MOCK_PRODUCTS)

\* C12: updateAttraction and deleteAttraction leave the product slice as it
\* was (the key and every product, attractionName included).
C12_ProductsKeepSnapshot ==
    call.op \in {"updateAttraction", "deleteAttraction"} =>
        /\ CurProducts = PrevProducts
        /\ ("mock_products" \in DOMAIN localStorage) = ("mock_products" \in DOMAIN prev)

\* updateAttraction has given attraction X a new title while a created
\* product linked to X carries the title X had before.
C12_Witness ==
    /\ call.op = "updateAttraction"
    /\ resp.success
    /\ \E p \in Elems(CurProducts), a \in Elems(PrevAttractions) :
          /\ p.id \notin Ids(MOCK_PRODUCTS)
          /\ Get(p, "attractionId") = call.args.id
          /\ a.id = call.args.id
          /\ Get(p, "attractionName") = a.title
          /\ Get(p, "attractionName") # resp.data.title

\* C13: the product createProduct appends carries as attractionName the
\* title of the first attraction of the slice whose id is the given
\* attractionId, whatever attractionName the caller supplied; with no
\* attractionId, or one that matches no attraction, it has no attractionName.
C13_AttractionNameResolved ==
    call.op = "createProduct" =>
        LET product == call.args.product
            stored == CurProducts[Len(CurProducts)]
            matches == {i \in DOMAIN CurAttractions :
                            CurAttractions[i].id = Get(product, "attractionId")}
        IN  /\ Len(CurProducts) = Len(PrevProducts) + 1
            /\ stored.id = resp.data.id
            /\ IF Truthy(Get(product, "attractionId")) /\ matches # {}
               THEN /\ "attractionName" \in DOMAIN stored
                    /\ stored.attractionName =
                          CurAttractions[CHOOSE i \in matches :
                                            \A j \in matches : i <= j].title
                    /\ resp.data.attractionName = stored.attractionName
               ELSE /\ "attractionName" \notin DOMAIN stored
                    /\ resp.data.attractionName = Undefined

\* createProduct has stored the title an attraction got from an update,
\* for a caller that supplied another attractionName.
C13_Witness ==
    /\ call.op = "createProduct"
    /\ Truthy(Get(call.args.product, "attractionName"))
    /\ Get(CurProducts[Len(CurProducts)], "attractionName") = "Panda Base"

\* C14: a list operation called again with the same arguments, with no write
\* since the earlier call, returns the data the earlier call returned, and a
\* list operation leaves the store as it was.
C14_ListIdempotent ==
    call.op \in ListOperations =>
        /\ localStorage = prev
        /\ memo.call = call
        /\ memo.resp = resp
        /\ "success" \in DOMAIN resp /\ resp.success

\* A list operation served the defaults of a slice that was never written.
C14_Witness ==
    /\ call.op = "getPendingMerchants"
    /\ memo.repeated
    /\ "mock_users" \notin DOMAIN localStorage
    /\ "mock_posts" \in DOMAIN localStorage
    /\ resp.data = <<>>

\* C15: a mutating call on the post slice that resolves after having been in
\* flight together with another call leaves in the store exactly the slice
\* it wrote: the slice it read when its body ran with its own change
\* applied, the other keys untouched.
C15_LastWriteWins ==
    (settled.overlapped /\ call.op \in {"createPost", "reportPost", "moderateContent"}) =>
        /\ "mock_posts" \in DOMAIN localStorage
        /\ \A k \in DOMAIN prev \ {"mock_posts"} :
              k \in DOMAIN localStorage /\ localStorage[k] = prev[k]
        /\ CASE call.op = "createPost" ->
                  /\ Len(CurPosts) = Len(PrevPosts) + 1
                  /\ Tail(CurPosts) = PrevPosts
                  /\ Head(CurPosts).id = resp.data.id
                  /\ Head(CurPosts).content = call.args.postData.content
             [] call.op = "reportPost" ->
                  CurPosts = [i \in DOMAIN PrevPosts |->
                                 IF PrevPosts[i].id = call.args.postId
                                 THEN Spread(PrevPosts[i], [status |-> "reported"])
                                 ELSE PrevPosts[i]]
             [] call.op = "moderateContent" ->
                  IF call.args.action = "delete"
                  THEN CurPosts = SelectSeq(PrevPosts, LAMBDA p : p.id # call.args.id)
                  ELSE CurPosts = [i \in DOMAIN PrevPosts |->
                                      IF PrevPosts[i].id = call.args.id
                                      THEN Spread(PrevPosts[i], [status |-> "active"])
                                      ELSE PrevPosts[i]]

\* Two createPost calls were in flight together and the second has written.
C15_Witness ==
    /\ settled.overlapped
    /\ settled.ticket > 1
    /\ call.op = "createPost"
    /\ Len(CurPosts) = 2

\* C17: every call put in flight is eventually resolved with an envelope,
\* whatever else is pending.
C17_EveryIssuedResolves ==
    \A k \in 1..MaxIssued :
        (\E i \in DOMAIN inflight : inflight[i].ticket = k)
            ~> (settled.ticket = k /\ "success" \in DOMAIN resp)

\* A call has resolved while a call issued after it is still pending.
C17_Witness ==
    /\ settled.ticket >= 1
    /\ inflight # <<>>
    /\ "success" \in DOMAIN resp

\* C16: no call of the service layer, uploadFile included, ends with its
\* promise rejected; a failure is an envelope with success = false.
C16_NeverRejects ==
    call.op # "none" =>
        /\ "rejected" \notin DOMAIN resp
        /\ call.op # "uploadFile" => "success" \in DOMAIN resp

\* C18: no two attractions of the attraction slice share an id.
C18_AttractionIdsUnique ==
    \A i, j \in DOMAIN CurAttractions :
        i # j => CurAttractions[i].id # CurAttractions[j].id

\* C19: a post is removed from the slice only by moderateContent delete
\* applied while it is reported, and a stored post's status changes only
\* from active to reported by reportPost and from reported to active by
\* moderateContent approve.
C19_PostLifecycle ==
    /\ \A p \in Elems(PrevPosts) :
          (\A q \in Elems(CurPosts) : q.id # p.id) =>
              /\ call.op = "moderateContent"
              /\ call.args.action = "delete"
              /\ p.status = "reported"
    /\ \A i \in DOMAIN PrevPosts, j \in DOMAIN CurPosts :
          (PrevPosts[i].id = CurPosts[j].id /\ PrevPosts[i].status # CurPosts[j].status) =>
              \/ /\ call.op = "reportPost"
                 /\ PrevPosts[i].status = "active"
                 /\ CurPosts[j].status = "reported"
              \/ /\ call.op = "moderateContent"
                 /\ call.args.action = "approve"
                 /\ PrevPosts[i].status = "reported"
                 /\ CurPosts[j].status = "active"

\* C20 as stated: every stored order is pending or shipped, and a stored
\* order's status changes only from pending to shipped.
C20_PendingOrShippedOnly ==
    /\ \A o \in Elems(CurOrders) : o.status \in {"pending", "shipped"}
    /\ (call.op # "createOrder") =>
          \A i \in DOMAIN PrevOrders \cap DOMAIN CurOrders :
              PrevOrders[i].status # CurOrders[i].status =>
                  PrevOrders[i].status = "pending" /\ CurOrders[i].status = "shipped"

\* C20 as amended: an order is created pending, no order is removed, and a
\* stored order's status changes only in a successful updateOrderStatus on
\* its id, to the status that call was given (handleShipOrder gives shipped).
C20_StatusAsGiven ==
    /\ call.op = "createOrder" =>
          /\ Len(CurOrders) = Len(PrevOrders) + 1
          /\ Head(CurOrders).status = "pending"
          /\ Tail(CurOrders) = PrevOrders
    /\ call.op # "createOrder" =>
          /\ Len(CurOrders) = Len(PrevOrders)
          /\ \A i \in DOMAIN PrevOrders :
                PrevOrders[i].status # CurOrders[i].status =>
                    /\ call.op = "updateOrderStatus"
                    /\ resp.success
                    /\ PrevOrders[i].id = call.args.orderId
                    /\ CurOrders[i].status = call.args.status
    /\ (call.op = "updateOrderStatus" /\ resp.success) =>
          /\ resp.data.status = call.args.status
          /\ \A i \in DOMAIN CurOrders :
                CurOrders[i].id = call.args.orderId =>
                    CurOrders[i].status = call.args.status

\* A pending order has been shipped with a tracking number.
C20_Witness ==
    /\ call.op = "updateOrderStatus"
    /\ call.args.status = "shipped"
    /\ Truthy(call.args.trackingNumber)
    /\ \E i \in DOMAIN PrevOrders :
          PrevOrders[i].status = "pending" /\ CurOrders[i].status = "shipped"

\* C21: no call removes a user, and the status of an existing user changes
\* only in updateUserStatus on that user's id, to the status given; every
\* other call leaves each existing user as it was.
C21_UsersKeptStatusByAdmin ==
    /\ Len(CurUsers) >= Len(PrevUsers)
    /\ \A i \in DOMAIN PrevUsers :
          /\ CurUsers[i].id = PrevUsers[i].id
          /\ CurUsers[i].status # PrevUsers[i].status =>
                /\ call.op = "updateUserStatus"
                /\ PrevUsers[i].id = call.args.userId
                /\ CurUsers[i].status = call.args.status
          /\ call.op # "updateUserStatus" => CurUsers[i] = PrevUsers[i]

\* updateUserStatus has rejected a registered merchant that was pending.
C21_Witness ==
    /\ call.op = "updateUserStatus"
    /\ call.args.status = "rejected"
    /\ \E i \in DOMAIN PrevUsers :
          /\ PrevUsers[i].id \notin Ids(INITIAL_USERS)
          /\ PrevUsers[i].status = "pending"
          /\ CurUsers[i].status = "rejected"

\* C22: every stored post has likes 0, no comments and status active or
\* reported; the post createPost inserts has status active, likes 0 and no
\* comments whatever the caller passed.
C22_PostCountersInert ==
    /\ \A p \in Elems(CurPosts) :
          /\ p.likes = 0
          /\ p.comments = <<>>
          /\ p.status \in {"active", "reported"}
    /\ call.op = "createPost" =>
          /\ Head(CurPosts).id = resp.data.id
          /\ Head(CurPosts).status = "active"
          /\ resp.data.status = "active"
          /\ resp.data.likes = 0
          /\ resp.data.comments = <<>>

\* createPost has stored a post for a caller that passed status and likes.
C22_Witness ==
    /\ call.op = "createPost"
    /\ Get(call.args.postData, "status") = "reported"
    /\ Get(call.args.postData, "likes") = 7
    /\ Head(CurPosts).content = call.args.postData.content

\* C23: deleteAttraction leaves every key but mock_attractions as it was,
\* so the posts and products that name the deleted attraction still do.
C23_DeleteAttractionNoCascade ==
    call.op = "deleteAttraction" =>
        /\ DOMAIN localStorage = DOMAIN prev \cup {"mock_attractions"}
        /\ \A k \in DOMAIN prev \ {"mock_attractions"} : localStorage[k] = prev[k]
        /\ CurPosts = PrevPosts
        /\ CurProducts = PrevProducts
        /\ CurOrders = PrevOrders
        /\ CurUsers = PrevUsers

\* Attraction 1 has been deleted while a stored post and a created product
\* name it, with an order and a registered user in the store.
C23_Witness ==
    /\ call.op = "deleteAttraction"
    /\ \A a \in Elems(CurAttractions) : a.id # call.args.id
    /\ \E a \in Elems(PrevAttractions) : a.id = call.args.id
    /\ \E q \in Elems(CurPosts) : q.attractionId = call.args.id
    /\ \E q \in Elems(CurProducts) :
          q.id \notin Ids(MOCK_PRODUCTS) /\ Get(q, "attractionId") = call.args.id
    /\ CurOrders # <<>>
    /\ "mock_users" \in DOMAIN localStorage

\* Letters compared without regard to case.
SameLetter(c, d) ==
    (IF c \in DOMAIN UpperToLower THEN UpperToLower[c] ELSE c)
  = (IF d \in DOMAIN UpperToLower THEN UpperToLower[d] ELSE d)

\* q occurs in text at some position, letters compared without regard to case.
OccursIn(q, text) ==
    \E i \in 1..(Len(text) - Len(q) + 1) :
        \A k \in 1..Len(q) : SameLetter(CharAt(text, i + k - 1), CharAt(q, k))

\* Attraction a satisfies every filter that is given and not empty.
Satisfies(a, filters) ==
    /\ \A f \in {"province", "city", "county"} :
          (f \in DOMAIN filters /\ filters[f] # "") => a[f] = filters[f]
    /\ ("tag" \in DOMAIN filters /\ filters.tag # "") =>
          filters.tag \in {a.tags[j] : j \in DOMAIN a.tags}
    /\ ("query" \in DOMAIN filters /\ filters.query # "") =>
          OccursIn(filters.query, a.title) \/ OccursIn(filters.query, a.description)

\* C24: getAttractions returns, in the stored order, exactly the stored
\* attractions that satisfy every given filter.
C24_FiltersExact ==
    call.op = "getAttractions" =>
        /\ resp.success
        /\ resp.data = SelectSeq(CurAttractions,
                                 LAMBDA a : Satisfies(a, call.args.filters))

\* A query in another letter case has selected some but not all of the
\* attractions of a city, on a slice that was written.
C24_Witness ==
    /\ call.op = "getAttractions"
    /\ "mock_attractions" \in DOMAIN localStorage
    /\ Get(call.args.filters, "query") = "PANDA"
    /\ Len(resp.data) = 1
    /\ resp.data[1].title = "Panda Base"

C26_NoLostUpdate ==
    /\ Len(CurPosts) + Len(CurOrders) + Len(inflight) = issued
    /\ \A i \in DOMAIN inflight : inflight[i].ticket = issued - Len(inflight) + i
    /\ settled.op = "createPost" =>
          Head(CurPosts).content = settled.args.postData.content
    /\ settled.op = "createOrder" =>
          Head(CurOrders).userId = settled.args.orderData.userId

\* Three creations that were pending together have all resolved.
C26_Witness ==
    /\ inflight = <<>>
    /\ settled.overlapped
    /\ Len(CurPosts) = 2
    /\ CurPosts[1].content # CurPosts[2].content
    /\ Len(CurOrders) = 1

\* C27: no two posts of the post slice have the same id, and a reportPost
\* or moderateContent changes or removes at most one post.
C27_PostIdsUnique ==
    /\ \A i, j \in DOMAIN CurPosts : CurPosts[i].id = CurPosts[j].id => i = j
    /\ call.op = "reportPost" =>
          Cardinality({i \in DOMAIN PrevPosts : CurPosts[i] # PrevPosts[i]}) <= 1
    /\ call.op = "moderateContent" =>
          /\ Len(CurPosts) >= Len(PrevPosts) - 1
          /\ Len(CurPosts) = Len(PrevPosts) =>
                Cardinality({i \in DOMAIN PrevPosts : CurPosts[i] # PrevPosts[i]}) <= 1

\* C28: a slice that has been written stays written, and a read of the
\* attraction slice after it was written serves the stored slice, never the
\* seeded attractions: all of it without filters, nothing but its elements
\* with filters, and an empty list when the stored slice is empty.
C28_WrittenSliceServed ==
    /\ DOMAIN prev \subseteq DOMAIN localStorage
    /\ (call.op = "getAttractions" /\ "mock_attractions" \in DOMAIN localStorage) =>
          LET stored == JSONparse(localStorage["mock_attractions"])
          IN  /\ resp.success
              /\ Elems(resp.data) \subseteq Elems(stored)
              /\ call.args.filters = <<>> => resp.data = stored
              /\ stored = <<>> => resp.data = <<>>
    /\ (call.op = "getAttractionById" /\ "mock_attractions" \in DOMAIN localStorage) =>
          (resp.success =>
               resp.data \in Elems(JSONparse(localStorage["mock_attractions"])))

\* Every attraction was deleted and the list was read after that.
C28_Witness ==
    /\ call.op = "getAttractions"
    /\ call.args.filters = <<>>
    /\ "mock_attractions" \in DOMAIN localStorage
    /\ JSONparse(localStorage["mock_attractions"]) = <<>>
    /\ resp.data = <<>>

\* C29: when the page of a logged-in merchant has been loaded and the
\* merchant's account is active in the user slice, the page shows the store
\* dashboard, not 'Account Pending Approval'.
C29_ApprovedSessionShowsDashboard ==
    (/\ fromLoad
     /\ user # <<>>
     /\ user[1].role = "merchant"
     /\ \E i \in DOMAIN CurUsers :
           CurUsers[i].id = user[1].id /\ CurUsers[i].status = "active")
    => MerchantDashboard = "dashboard"

\* C30: the cart has at most one line for a product id; addToCart of a
\* product with a line adds qty to that line and leaves the others as they
\* were, addToCart of another product appends one line, and removeFromCart
\* takes out the line of its id and no other.
C30_CartLines ==
    LET before == cartLast.before
    IN  /\ \A i, j \in DOMAIN cart : cart[i].id = cart[j].id => i = j
        /\ cartLast.op = "addToCart" =>
              LET p == cartLast.args.p
                  qty == cartLast.args.qty
              IN  IF \E k \in DOMAIN before : before[k].id = p.id
                  THEN /\ Len(cart) = Len(before)
                       /\ \A k \in DOMAIN before :
                             IF before[k].id = p.id
                             THEN /\ cart[k].quantity = before[k].quantity + qty
                                  /\ \A f \in DOMAIN before[k] \ {"quantity"} :
                                        cart[k][f] = before[k][f]
                             ELSE cart[k] = before[k]
                  ELSE /\ Len(cart) = Len(before) + 1
                       /\ SubSeq(cart, 1, Len(before)) = before
                       /\ cart[Len(cart)].id = p.id
                       /\ cart[Len(cart)].quantity = qty
        /\ cartLast.op = "removeFromCart" =>
              /\ cart = SelectSeq(before, LAMBDA i : i.id # cartLast.args.id)
              /\ Len(cart) >= Len(before) - 1
              /\ \A i \in DOMAIN cart : cart[i].id # cartLast.args.id
        /\ cartLast.op = "clearCart" => cart = <<>>

\* A product with a line in a cart of three lines was added again.
C30_Witness ==
    /\ cartLast.op = "addToCart"
    /\ Len(cartLast.before) = 3
    /\ Len(cart) = 3
    /\ cart[2].quantity = 3
    /\ cartLast.args.qty = 2

====
